---- MODULE Spec2Model ----
(***************************************************************************)
(* A model of the point-cloud registration code of DICOMautomaton:          *)
(*   src/src/Operations/AlignPoints.cc  (AffineTransform, AlignViaCOM,      *)
(*                                       AlignViaPCA, AlignPoints)          *)
(*   src/registration/src/CPD_Shared.cc (the shared CPD helpers)            *)
(*   src/img_registration/src/Run_Def_Reg.cc (the command-line driver)      *)
(*                                                                          *)
(* Arithmetic.  The code computes in IEEE doubles.  The model computes in   *)
(* exact rationals <<n, d>> (d > 0, lowest terms) extended with one NaN     *)
(* value <<0, 0>> that propagates through every operation as it does in     *)
(* IEEE arithmetic (NaN * 0 = NaN, 0 / 0 = NaN, NaN # 1).  Rounding is not  *)
(* modelled.                                                                *)
(***************************************************************************)
EXTENDS Integers, Sequences, FiniteSets, TLC

VARIABLES
    t,        \* SpecAffine: the AffineTransform object under test (t[i][j])
    aop,      \* SpecAffine: the last operation on it and its outcome
    nWrites,  \* SpecAffine: number of coeff writes attempted so far
    X,        \* SpecAligner: the stationary cloud handed to an aligner
    Y,        \* SpecAligner: the moving cloud handed to an aligner
    res,      \* SpecAligner: what the aligner call produced
    clouds,   \* SpecAlign: the point clouds of the Drover, in order
    call,     \* SpecAlign: the AlignPoints call made and its outcome
    cli,      \* SpecCLI: the locals of the driver's main() and its progress
    cpd       \* SpecCPD: the state of one rigid CPD alignment

vars == <<t, aop, nWrites, X, Y, res, clouds, call, cli, cpd>>

-----------------------------------------------------------------------------
(* Let(e, F) is F(e) with e evaluated once: the singleton set binds its     *)
(* value to F's parameter.  Let2 does the same for two values.              *)

Let(e, F(_)) == CHOOSE r \in {F(v) : v \in {e}} : TRUE

Let2(a, b, F(_, _)) == CHOOSE r \in {F(x, y) : x \in {a}, y \in {b}} : TRUE

-----------------------------------------------------------------------------
(* Numbers: rationals in lowest terms, and NaN.                             *)

GCD[a \in Nat, b \in Nat] == IF b = 0 THEN a ELSE GCD[b, a % b]

Abs(n) == IF n < 0 THEN -n ELSE n

NaN == <<0, 0>>

IsNaN(a) == a[2] = 0

Rat(n, d) == Let(GCD[Abs(n), d], LAMBDA g : <<n \div g, d \div g>>)

FromInt(n) == <<n, 1>>

Zero == FromInt(0)

One == FromInt(1)

Add(a, b) ==
    Let2(a, b, LAMBDA x, y :
        IF IsNaN(x) \/ IsNaN(y) THEN NaN
        ELSE Let2(x[1] * y[2] + y[1] * x[2], x[2] * y[2], LAMBDA n, d : Rat(n, d)))

Neg(a) == Let(a, LAMBDA x : IF IsNaN(x) THEN NaN ELSE <<-x[1], x[2]>>)

Sub(a, b) == Add(a, Neg(b))

Mul(a, b) ==
    Let2(a, b, LAMBDA x, y :
        IF IsNaN(x) \/ IsNaN(y) THEN NaN
        ELSE Let2(x[1] * y[1], x[2] * y[2], LAMBDA n, d : Rat(n, d)))

\* a / b.  0 / 0 is NaN.  The divisions of the modelled code (est_COM by the
\* point count, unit() by the vector's length) have a zero divisor only with
\* a zero dividend, so no infinity is represented.  E_Step's
\* -1 / (2 * sigmaSquared) has a zero divisor only when every squared
\* distance it is multiplied by is 0, where the product is NaN as well.
Div(a, b) ==
    Let2(a, b, LAMBDA x, y :
        IF IsNaN(x) \/ IsNaN(y) \/ y[1] = 0 THEN NaN
        ELSE IF y[1] < 0
             THEN Let2(-(x[1] * y[2]), x[2] * (-y[1]), LAMBDA n, d : Rat(n, d))
             ELSE Let2(x[1] * y[2], x[2] * y[1], LAMBDA n, d : Rat(n, d)))

\* The C++ comparison a != b on doubles: NaN differs from everything.
Differs(a, b) == Let2(a, b, LAMBDA x, y : IsNaN(x) \/ IsNaN(y) \/ x # y)

Less(a, b) == a[1] * b[2] < b[1] * a[2]

AbsR(a) == IF IsNaN(a) THEN NaN ELSE <<Abs(a[1]), a[2]>>

Cube(a) == Let(a, LAMBDA x : Mul(Mul(x, x), x))

-----------------------------------------------------------------------------
(* vec3<double>                                                             *)

Vec(x, y, z) == <<x, y, z>>

IVec(x, y, z) == <<FromInt(x), FromInt(y), FromInt(z)>>

VAdd(a, b) ==
    Let2(a, b, LAMBDA p, q : <<Add(p[1], q[1]), Add(p[2], q[2]), Add(p[3], q[3])>>)

VSub(a, b) ==
    Let2(a, b, LAMBDA p, q : <<Sub(p[1], q[1]), Sub(p[2], q[2]), Sub(p[3], q[3])>>)

VScale(a, s) ==
    Let2(a, s, LAMBDA p, q : <<Mul(p[1], q), Mul(p[2], q), Mul(p[3], q)>>)

VDivide(a, s) ==
    Let2(a, s, LAMBDA p, q : <<Div(p[1], q), Div(p[2], q), Div(p[3], q)>>)

Dot(a, b) ==
    Let2(a, b, LAMBDA p, q :
        Add(Add(Mul(p[1], q[1]), Mul(p[2], q[2])), Mul(p[3], q[3])))

VFinite(a) == ~IsNaN(a[1]) /\ ~IsNaN(a[2]) /\ ~IsNaN(a[3])

\* vec3::unit(): every component divided by the length sqrt(x*x + y*y + z*z).
\* The model takes it only of vectors with at most one non-zero component,
\* whose length is the sum of the absolute values; a zero vector gives 0 / 0.
Unit(a) ==
    Let(a, LAMBDA v : VDivide(v, Add(Add(AbsR(v[1]), AbsR(v[2])), AbsR(v[3]))))

-----------------------------------------------------------------------------
(* AffineTransform                                                          *)

\* The member initialiser: the 4x4 identity, indexed t[i][j] with i, j in 0..3.
Identity == [i \in 0..3 |-> [j \in 0..3 |-> IF i = j THEN One ELSE Zero]]

isininc(lo, x, hi) == lo <= x /\ x <= hi

\* coeff(i, j) hands out a reference only to the coefficients that may change.
CoeffAllowedWide(i, j) == isininc(0, i, 3) /\ isininc(0, j, 3)

CoeffAllowedNarrow(i, j) == isininc(0, i, 2) /\ isininc(0, j, 2)

CoeffAllowed(i, j) == isininc(0, i, 3) /\ isininc(0, j, 2)

\* t.coeff(i, j) = v: the transform afterwards and whether coeff threw.
SetCoeff(tr, i, j, v) ==
    IF ~CoeffAllowed(i, j)
    THEN [t |-> tr, err |-> "INVALID_COEFFICIENT"]
    ELSE [t |-> [tr EXCEPT ![i][j] = v], err |-> "none"]

\* A chain of t.coeff(i, j) = v statements; a throw ends the chain.
RECURSIVE SetCoeffs(_, _, _)
SetCoeffs(tr, writes, k) ==
    IF k > Len(writes) THEN [t |-> tr, err |-> "none"]
    ELSE Let(SetCoeff(tr, writes[k][1], writes[k][2], writes[k][3]), LAMBDA r :
            IF r.err # "none" THEN r ELSE SetCoeffs(r.t, writes, k + 1))

\* One output row of apply_to(vec3): in.x*t[0][j] + in.y*t[1][j] + in.z*t[2][j] + 1.0*t[3][j].
ApplyRow(tr, in, j) ==
    Add(Add(Add(Mul(in[1], tr[0][j]), Mul(in[2], tr[1][j])),
            Mul(in[3], tr[2][j])),
        Mul(One, tr[3][j]))

\* apply_to(const vec3 &): the point, the homogeneous weight w, and the throw
\* when w != 1.0.
ApplyToVec(tr, in) ==
    Let(ApplyRow(tr, in, 3), LAMBDA w :
        IF Differs(w, One)
        THEN [out |-> in, w |-> w, err |-> "NOT_AFFINE"]
        ELSE [out |-> Vec(ApplyRow(tr, in, 0), ApplyRow(tr, in, 1), ApplyRow(tr, in, 2)),
              w |-> w, err |-> "none"])

\* apply_to(Point_Cloud &): the points are overwritten one by one, in order;
\* a throw leaves the points before it transformed and the rest as they were.
RECURSIVE ApplyFrom(_, _, _)
ApplyFrom(tr, pts, k) ==
    IF k > Len(pts) THEN [pts |-> pts, err |-> "none"]
    ELSE Let(ApplyToVec(tr, pts[k]), LAMBDA r :
            IF r.err # "none" THEN [pts |-> pts, err |-> r.err]
            ELSE Let([pts EXCEPT ![k] = r.out], LAMBDA q : ApplyFrom(tr, q, k + 1)))

ApplyToCloud(tr, pts) == Let2(tr, pts, LAMBDA a, p : ApplyFrom(a, p, 1))

-----------------------------------------------------------------------------
(* The aligners.  A Point_Cloud is the sequence of its points (p.first); the *)
(* per-point attributes are not touched by any of this code.                *)

\* Stats::Running_Sum over the points, coordinate by coordinate, in input order.
RECURSIVE VSum(_, _)
VSum(pts, k) ==
    IF k > Len(pts) THEN IVec(0, 0, 0) ELSE VAdd(pts[k], VSum(pts, k + 1))

\* est_COM: the coordinate sums divided by the point count (0 / 0 when empty).
est_COM(pc) == Let(pc, LAMBDA p : VDivide(VSum(p, 1), FromInt(Len(p))))

dCOMSwapped(moving, stationary) == VSub(est_COM(moving), est_COM(stationary))

dCOM(moving, stationary) == VSub(est_COM(stationary), est_COM(moving))

\* AlignViaCOM: the identity with the translation column set to dCOM.  The
\* returned optional is always engaged.
AlignViaCOM(moving, stationary) ==
    Let(dCOM(moving, stationary), LAMBDA d :
        SetCoeffs(Identity, <<<<3, 0, d[1]>>, <<3, 1, d[2]>>, <<3, 2, d[3]>>>>, 1))

\* est_PCA, first half: cov = centered.adjoint() * centered, a 3x3 matrix
\* indexed cov[a][b] with a, b in 1..3, not divided by the point count.
RECURSIVE CovSum(_, _, _, _, _)
CovSum(pts, mean, a, b, k) ==
    IF k > Len(pts) THEN Zero
    ELSE Add(Mul(Sub(pts[k][a], mean[a]), Sub(pts[k][b], mean[b])),
             CovSum(pts, mean, a, b, k + 1))

Covariance(pc) ==
    Let2(pc, est_COM(pc), LAMBDA p, mean :
        [a \in 1..3 |-> [b \in 1..3 |-> CovSum(p, mean, a, b, 1)]])

\* The clouds whose eigenvectors the model computes: a finite covariance that
\* is diagonal with three different diagonal entries.  Its eigenvectors are
\* then the coordinate axes, each up to sign.  (Other covariances have
\* irrational or non-unique eigenvectors; PCA on them is outside the model.)
PCAModelled(pc) ==
    /\ Len(pc) > 0
    /\ Let(Covariance(pc), LAMBDA cov :
        /\ \A a \in 1..3, b \in 1..3 : ~IsNaN(cov[a][b]) /\ (a # b => cov[a][b] = Zero)
        /\ \A a \in 1..3, b \in 1..3 : a # b => cov[a][a] # cov[b][b])

Axis(a) == [c \in 1..3 |-> IF c = a THEN One ELSE Zero]

\* The sign of an eigenvector is the solver's choice.  Every later step works
\* axis by axis, so the model tries each axis with both signs: all three as
\* they are, and all three negated.
Signs == {[k \in 1..3 |-> 1], [k \in 1..3 |-> -1]}

\* est_PCA, second half: SelfAdjointEigenSolver returns the eigenvalues in
\* increasing order with their eigenvectors as columns; pc1..pc3 are those
\* columns, normalised.  sgn is the sign the solver gave each of them.
est_PCA(pc, sgn) ==
    Let(Covariance(pc), LAMBDA cov :
        [k \in 1..3 |->
            Unit(VScale(Axis(CHOOSE a \in 1..3 :
                            Cardinality({b \in 1..3 : Less(cov[b][b], cov[a][a])}) = k - 1),
                        FromInt(sgn[k])))])

\* reorient_pcomps: the sum over the points of ((p - COM) . pc)^3 ...
RECURSIVE ThirdMoment(_, _, _, _)
ThirdMoment(pts, COM, comp, k) ==
    IF k > Len(pts) THEN Zero
    ELSE Add(Cube(Dot(VSub(pts[k], COM), comp)), ThirdMoment(pts, COM, comp, k + 1))

\* ... and each component scaled by its sum and normalised again.
reorient_pcomps(COM, comps, pc) ==
    Let2(COM, comps, LAMBDA c, e :
        Let(pc, LAMBDA p :
            [k \in 1..3 |-> Unit(VScale(e[k], ThirdMoment(p, c, e[k], 1)))]))

\* A = S * M.transpose(), with S(r, k) = S[k][r] the r-th coordinate of the
\* k-th reoriented stationary component, and M likewise.
MatA(S, M) ==
    Let2(S, M, LAMBDA s, m :
        [r \in 1..3 |-> [c \in 1..3 |->
            Add(Add(Mul(s[1][r], m[1][c]), Mul(s[2][r], m[2][c])), Mul(s[3][r], m[3][c]))]])

MatVec(A, v) == [r \in 1..3 |-> Dot(<<A[r][1], A[r][2], A[r][3]>>, v)]

PCAWritesRowMajor(A, b) ==
    << <<0, 0, A[1][1]>>, <<0, 1, A[1][2]>>, <<0, 2, A[1][3]>>,
       <<1, 0, A[2][1]>>, <<1, 1, A[2][2]>>, <<1, 2, A[2][3]>>,
       <<2, 0, A[3][1]>>, <<2, 1, A[3][2]>>, <<2, 2, A[3][3]>>,
       <<3, 0, b[1]>>, <<3, 1, b[2]>>, <<3, 2, b[3]>> >>

\* The coefficient writes of AlignViaPCA: t.coeff(i, j) = A(j, i) for the linear
\* block, then the translation b = COM_s - A * COM_m.
PCAWrites(A, b) ==
    << <<0, 0, A[1][1]>>, <<0, 1, A[2][1]>>, <<0, 2, A[3][1]>>,
       <<1, 0, A[1][2]>>, <<1, 1, A[2][2]>>, <<1, 2, A[3][2]>>,
       <<2, 0, A[1][3]>>, <<2, 1, A[2][3]>>, <<2, 2, A[3][3]>>,
       <<3, 0, b[1]>>, <<3, 1, b[2]>>, <<3, 2, b[3]>> >>

\* AlignViaPCA.  sgnS and sgnM are the solver's eigenvector signs for the
\* stationary and the moving cloud.
AlignViaPCA(moving, stationary, sgnM, sgnS) ==
    Let2(est_COM(stationary), est_COM(moving), LAMBDA COM_s, COM_m :
        Let(MatA(reorient_pcomps(COM_s, est_PCA(stationary, sgnS), stationary),
                 reorient_pcomps(COM_m, est_PCA(moving, sgnM), moving)), LAMBDA A :
            Let(VSub(COM_s, MatVec(A, COM_m)), LAMBDA b :
                Let(PCAWrites(A, b), LAMBDA writes : SetCoeffs(Identity, writes, 1)))))

-----------------------------------------------------------------------------
(* The AlignPoints operation.  The Drover holds its point clouds behind      *)
(* pointers (the loop dereferences each list entry twice to reach a          *)
(* Point_Cloud), so the by-value Drover argument shares its clouds with the  *)
(* caller's: what apply_to writes is written to the caller's clouds, whether *)
(* the call returns or throws.  A Method string is the sequence of its       *)
(* characters.                                                               *)

\* Compile_Regex compiles its pattern case-insensitively.
Lower(ch) ==
    CASE ch = "C" -> "c" [] ch = "O" -> "o" [] ch = "M" -> "m"
      [] ch = "P" -> "p" [] ch = "A" -> "a" [] ch = "D" -> "d"
      [] OTHER -> ch

Lit(ch) == [ch |-> ch, opt |-> FALSE]

Opt(ch) == [ch |-> ch, opt |-> TRUE]

regex_comStrict == <<Lit("c"), Lit("o"), Lit("m")>>

\* "^co?m?$"
regex_com == <<Lit("c"), Opt("o"), Opt("m")>>

\* "^pc?a?$"
regex_pca == <<Lit("p"), Opt("c"), Opt("a")>>

\* std::regex_match: the whole string against a sequence of literal and
\* optional (x?) characters.
RECURSIVE MatchFrom(_, _, _, _)
MatchFrom(str, k, pat, i) ==
    IF i > Len(pat) THEN k > Len(str)
    ELSE \/ /\ k <= Len(str)
            /\ Lower(str[k]) = pat[i].ch
            /\ MatchFrom(str, k + 1, pat, i + 1)
         \/ /\ pat[i].opt
            /\ MatchFrom(str, k, pat, i + 1)

regex_match(str, pat) == MatchFrom(str, 1, pat, 1)

\* if(ref_PCs.size() != 1) throw
RefSelectionRejectedEmptyOnly(ref_PCs) == Len(ref_PCs) = 0

RefSelectionRejected(ref_PCs) == Len(ref_PCs) # 1

\* What one pass of the loop body leaves: the aligner's transform applied to
\* the moving cloud m in place.
Transformed(cl, m, t_opt) ==
    Let(IF t_opt.err # "none" THEN [pts |-> cl[m], err |-> t_opt.err]
        ELSE ApplyToCloud(t_opt.t, cl[m]), LAMBDA a :
        [clouds |-> [cl EXCEPT ![m] = a.pts], err |-> a.err])

\* The loop over moving_PCs, from its k-th entry on.  ref is the index of
\* ref_PCs.front(); ran lists the aligner run for each moving cloud so far;
\* modelled is FALSE when est_PCA met a cloud the model has no eigenvectors of.
RECURSIVE AlignLoop(_, _, _, _, _, _, _, _)
AlignLoop(cl, moving_PCs, k, ref, MethodStr, sgnM, sgnS, ran) ==
    IF k > Len(moving_PCs)
    THEN [clouds |-> cl, err |-> "none", ran |-> ran, modelled |-> TRUE]
    ELSE IF regex_match(MethodStr, regex_com)
    THEN Let(Transformed(cl, moving_PCs[k], AlignViaCOM(cl[moving_PCs[k]], cl[ref])),
             LAMBDA r :
                IF r.err # "none"
                THEN [clouds |-> r.clouds, err |-> r.err, ran |-> Append(ran, "com"),
                      modelled |-> TRUE]
                ELSE Let(Append(ran, "com"), LAMBDA ran2 :
                        AlignLoop(r.clouds, moving_PCs, k + 1, ref, MethodStr,
                                  sgnM, sgnS, ran2)))
    ELSE IF regex_match(MethodStr, regex_pca)
    THEN IF ~(PCAModelled(cl[moving_PCs[k]]) /\ PCAModelled(cl[ref]))
         THEN [clouds |-> cl, err |-> "none", ran |-> ran, modelled |-> FALSE]
         ELSE Let(Transformed(cl, moving_PCs[k],
                              AlignViaPCA(cl[moving_PCs[k]], cl[ref],
                                          IF moving_PCs[k] = ref THEN sgnS ELSE sgnM, sgnS)),
                  LAMBDA r :
                    IF r.err # "none"
                    THEN [clouds |-> r.clouds, err |-> r.err, ran |-> Append(ran, "pca"),
                          modelled |-> TRUE]
                    ELSE Let(Append(ran, "pca"), LAMBDA ran2 :
                            AlignLoop(r.clouds, moving_PCs, k + 1, ref, MethodStr,
                                      sgnM, sgnS, ran2)))
    ELSE [clouds |-> cl, err |-> "METHOD_UNKNOWN", ran |-> ran, modelled |-> TRUE]

\* AlignPoints.  ref_PCs and moving_PCs are what Whitelist made of the two
\* selections: lists of clouds of the Drover, in its order.
AlignPoints(cl, moving_PCs, ref_PCs, MethodStr, sgnM, sgnS) ==
    IF RefSelectionRejected(ref_PCs)
    THEN [clouds |-> cl, err |-> "INVALID_SELECTION", ran |-> <<>>, modelled |-> TRUE]
    ELSE AlignLoop(cl, moving_PCs, 1, ref_PCs[1], MethodStr, sgnM, sgnS, <<>>)

-----------------------------------------------------------------------------
(* CPD_Shared.cc                                                            *)

SquaredNorm(v) == Dot(v, v)

\* The double loop of Init_Sigma_Squared: normSum += (x_i - y_j).squaredNorm().
RECURSIVE NormSumRow(_, _, _)
NormSumRow(x, ys, j) ==
    IF j > Len(ys) THEN Zero
    ELSE Add(SquaredNorm(VSub(x, ys[j])), NormSumRow(x, ys, j + 1))

RECURSIVE NormSum(_, _, _)
NormSum(xs, ys, i) ==
    IF i > Len(xs) THEN Zero
    ELSE Add(NormSumRow(xs[i], ys, 1), NormSum(xs, ys, i + 1))

\* The number of columns of the point matrices.
Dim == 3

\* Init_Sigma_Squared: 1.0 / (nRowsX * mRowsY * dim) * normSum.  With an empty
\* set the integer product is 0, 1.0 / 0 is +inf and normSum is 0.0, so the
\* result is inf * 0 = NaN.
Init_Sigma_Squared(xPoints, yPoints) ==
    LET n == Len(xPoints) * Len(yPoints) * Dim
    IN  IF n = 0 THEN NaN ELSE Mul(Rat(1, n), NormSum(xPoints, yPoints, 1))

-----------------------------------------------------------------------------
(* Bounds of the model.                                                     *)

\* Coefficient writes attempted on the transform under test.
MaxWrites == 2

\* Indices tried by a write reach this far outside 0..3.
IdxMargin == 1

WriteIdx == (0 - IdxMargin)..(3 + IdxMargin)

\* Values written into coefficients, and points a transform is applied to.
WriteVals == {FromInt(2), Rat(-1, 2), NaN}

ApplyPts == {IVec(0, 0, 0), IVec(1, -2, 3), Vec(NaN, One, Zero)}

NoAop == [op |-> "none", i |-> 0, j |-> 0, v |-> Zero, before |-> Identity,
          in |-> IVec(0, 0, 0), out |-> IVec(0, 0, 0), w |-> One, err |-> "none"]

NoRes == [op |-> "none", t |-> Identity, err |-> "none", out |-> <<>>,
          aerr |-> "none", sigma2 |-> Zero]

\* The driver and the CPD aligner, not started.
NoCli == [pc |-> "none"]

NoCpd == [pc |-> "none"]

NoCall == [op |-> "none", moving |-> <<>>, ref |-> <<>>, method |-> <<>>,
           before |-> <<>>, err |-> "none", ran |-> <<>>]

-----------------------------------------------------------------------------
(* SpecAffine: one AffineTransform, written through coeff and applied.      *)

InitAffine ==
    /\ t = Identity
    /\ aop = NoAop
    /\ nWrites = 0
    /\ X = <<>> /\ Y = <<>> /\ res = NoRes
    /\ clouds = <<>> /\ call = NoCall
    /\ cli = NoCli /\ cpd = NoCpd

\* t.coeff(i, j) = v
CoeffWrite(i, j, v) ==
    /\ nWrites < MaxWrites
    /\ \E r \in {SetCoeff(t, i, j, v)} :
           /\ t' = r.t
           /\ aop' = [NoAop EXCEPT !.op = "coeff", !.i = i, !.j = j, !.v = v,
                                   !.before = t, !.err = r.err]
    /\ nWrites' = nWrites + 1
    /\ UNCHANGED <<X, Y, res, clouds, call, cli, cpd>>

\* t.apply_to(p)
ApplyPoint(p) ==
    /\ \E r \in {ApplyToVec(t, p)} :
           aop' = [NoAop EXCEPT !.op = "apply", !.before = t, !.in = p,
                                !.out = r.out, !.w = r.w, !.err = r.err]
    /\ UNCHANGED <<t, nWrites, X, Y, res, clouds, call, cli, cpd>>

NextAffine ==
    \/ \E i \in WriteIdx, j \in WriteIdx, v \in WriteVals : CoeffWrite(i, j, v)
    \/ \E p \in ApplyPts : ApplyPoint(p)

SpecAffine == InitAffine /\ [][NextAffine]_vars

-----------------------------------------------------------------------------
(* Claims about AffineTransform.                                            *)

\* C1: after any sequence of coeff writes, accepted or rejected, the fixed
\* row t[0][3], t[1][3], t[2][3], t[3][3] is still (0, 0, 0, 1); applying the
\* transform to a finite point gives homogeneous weight exactly 1 and never
\* fails with NOT_AFFINE.
C1_FixedRow ==
    /\ \A i \in 0..3 : t[i][3] = IF i = 3 THEN One ELSE Zero
    /\ (aop.op = "apply" /\ VFinite(aop.in)) => (aop.w = One /\ aop.err = "none")

C1_Witness ==
    /\ aop.op = "apply" /\ VFinite(aop.in)
    /\ nWrites = MaxWrites
    /\ t # Identity

\* C2: a write with j = 3, or with i outside 0..3 or j outside 0..2, fails with
\* INVALID_COEFFICIENT and leaves every coefficient unchanged; a write with i
\* in 0..3 and j in 0..2 succeeds and changes only coefficient (i, j).
C2_WriteContract ==
    aop.op = "coeff" =>
        IF aop.j = 3 \/ aop.i < 0 \/ aop.i > 3 \/ aop.j < 0 \/ aop.j > 2
        THEN aop.err = "INVALID_COEFFICIENT" /\ t = aop.before
        ELSE /\ aop.err = "none"
             /\ t[aop.i][aop.j] = aop.v
             /\ \A a \in 0..3, b \in 0..3 :
                    (a # aop.i \/ b # aop.j) => t[a][b] = aop.before[a][b]

C2_Witness ==
    /\ aop.op = "coeff" /\ aop.j = 3 /\ aop.i \in 0..3
    /\ aop.err = "INVALID_COEFFICIENT"
    /\ aop.before # Identity

-----------------------------------------------------------------------------
(* SpecAligner: one aligner called on a stationary cloud X and a moving      *)
(* cloud Y, and the transform it returns applied to a copy of Y.            *)

\* Points in a cloud of the general pool.
MaxPts == 2

PointPool == {IVec(0, 0, 0), IVec(1, 0, 0), IVec(0, 2, -1)}

SeqsUpTo(S, n) == UNION {[1..k -> S] : k \in 0..n}

\* Symmetric about its centroid; covariance diag(2, 8, 18).
SymCloud ==
    << IVec(1, 0, 0), IVec(-1, 0, 0), IVec(0, 2, 0), IVec(0, -2, 0),
       IVec(0, 0, 3), IVec(0, 0, -3) >>

\* Skewed along every axis; centroid (1, 0, -4/5), covariance diag(12, 6, 14/5).
AsymCloud ==
    << IVec(2, 1, 0), IVec(2, -2, -1), IVec(-2, 0, -1), IVec(2, 1, -2), IVec(1, 0, 0) >>

\* AsymCloud turned by 90 degrees about z and shifted by (5, -3, 7).
AsymCloudRot ==
    [k \in 1..Len(AsymCloud) |->
        LET p == AsymCloud[k]
        IN  VAdd(Vec(Neg(p[2]), p[1], p[3]), IVec(5, -3, 7))]

\* Coplanar (x = 0) and skewed within the plane; covariance diag(0, 6, 11/4).
PlanarCloud == << IVec(0, 2, 0), IVec(0, 0, 1), IVec(0, -1, -1), IVec(0, -1, 1) >>

PCAClouds == {SymCloud, AsymCloud, AsymCloudRot, PlanarCloud}

AlignerClouds == SeqsUpTo(PointPool, MaxPts) \cup PCAClouds

InitAligner ==
    /\ X \in AlignerClouds
    /\ Y \in AlignerClouds
    /\ res = NoRes
    /\ t = Identity /\ aop = NoAop /\ nWrites = 0
    /\ clouds = <<>> /\ call = NoCall
    /\ cli = NoCli /\ cpd = NoCpd

\* What a caller gets: the aligner's transform, then apply_to on the moving cloud.
Aligned(op, aligned, moving) ==
    Let(aligned, LAMBDA r :
        Let(IF r.err = "none" THEN ApplyToCloud(r.t, moving)
            ELSE [pts |-> moving, err |-> "none"], LAMBDA a :
            [op |-> op, t |-> r.t, err |-> r.err, out |-> a.pts, aerr |-> a.err,
             sigma2 |-> Zero]))

RunCOM ==
    /\ res.op = "none"
    /\ res' = Aligned("com", AlignViaCOM(Y, X), Y)
    /\ UNCHANGED <<t, aop, nWrites, X, Y, clouds, call, cli, cpd>>

RunPCA(sgnS, sgnM) ==
    /\ res.op = "none"
    /\ PCAModelled(X) /\ PCAModelled(Y)
    /\ X = Y => sgnS = sgnM
    /\ res' = Aligned("pca", AlignViaPCA(Y, X, sgnM, sgnS), Y)
    /\ UNCHANGED <<t, aop, nWrites, X, Y, clouds, call, cli, cpd>>

RunInitSigma ==
    /\ res.op = "none"
    /\ res' = [op |-> "sigma", t |-> Identity, err |-> "none", out |-> Y,
               aerr |-> "none", sigma2 |-> Init_Sigma_Squared(X, Y)]
    /\ UNCHANGED <<t, aop, nWrites, X, Y, clouds, call, cli, cpd>>

\* The sign disambiguation of AlignViaPCA on the moving cloud alone: est_COM,
\* est_PCA, reorient_pcomps.  e holds pc1..pc3 as solved, m3 their summed
\* third moments, re the reoriented components.
RunReorient(sgn) ==
    /\ res.op = "none"
    /\ PCAModelled(Y)
    /\ \E c \in {est_COM(Y)} : \E e \in {est_PCA(Y, sgn)} :
           res' = [op |-> "reorient", t |-> Identity, err |-> "none", out |-> Y,
                   aerr |-> "none", sigma2 |-> Zero, e |-> e,
                   m3 |-> [k \in 1..3 |-> ThirdMoment(Y, c, e[k], 1)],
                   re |-> reorient_pcomps(c, e, Y)]
    /\ UNCHANGED <<t, aop, nWrites, X, Y, clouds, call, cli, cpd>>

NextAligner ==
    \/ RunCOM
    \/ \E sgnS \in Signs, sgnM \in Signs : RunPCA(sgnS, sgnM)
    \/ RunInitSigma
    \/ \E sgn \in Signs : RunReorient(sgn)

SpecAligner == InitAligner /\ [][NextAligner]_vars

-----------------------------------------------------------------------------
(* Claims about the aligners.                                               *)

\* C3: for non-empty X and Y the COM aligner returns a transform whose linear
\* block is the identity and whose translation is mean(X) - mean(Y); applied
\* to Y it gives a cloud with the centroid of X, with Y's point count and
\* order.
C3_COMAligns ==
    (res.op = "com" /\ X # <<>> /\ Y # <<>>) =>
        LET n == FromInt(Len(X))
            m == FromInt(Len(Y))
            tau == <<res.t[3][0], res.t[3][1], res.t[3][2]>>
        IN  /\ res.err = "none" /\ res.aerr = "none"
            /\ \A i \in 0..2, j \in 0..2 : res.t[i][j] = IF i = j THEN One ELSE Zero
            /\ VScale(tau, Mul(n, m)) = VSub(VScale(VSum(X, 1), m), VScale(VSum(Y, 1), n))
            /\ Len(res.out) = Len(Y)
            /\ \A k \in 1..Len(Y) : res.out[k] = VAdd(Y[k], tau)
            /\ VScale(VSum(res.out, 1), n) = VScale(VSum(X, 1), m)

C3_Witness ==
    /\ res.op = "com" /\ Len(X) >= 2 /\ Len(Y) >= 2
    /\ Y[1] # Y[2]
    /\ res.t # Identity
    /\ res.out # Y

\* The covariance of a cloud the model computes the eigenvectors of has full rank.
FullRank(pc) == \A a \in 1..3 : Covariance(pc)[a][a] # Zero

\* C4: identity law.  Aligning X to itself with the COM aligner (X non-empty)
\* or the PCA aligner (at least three points, full-rank covariance, clouds
\* symmetric about their centroid included) gives a transform whose
\* application to X yields X.
C4_IdentityLaw ==
    (/\ res.op \in {"com", "pca"}
     /\ X = Y /\ X # <<>>
     /\ res.op = "pca" => (Len(X) >= 3 /\ FullRank(X)))
        => (res.err = "none" /\ res.aerr = "none" /\ res.out = X)

\* C5: an aligner called with an empty stationary or moving cloud fails with
\* EMPTY_POINTSET; no transform is returned and nothing is applied.
C5_EmptyRejected ==
    (res.op \in {"com", "pca", "sigma"} /\ (X = <<>> \/ Y = <<>>))
        => (res.err = "EMPTY_POINTSET" /\ res.out = Y)

\* C15: the PCA aligner fails with DEGENERATE_PCA whenever the covariance of
\* X or of Y is rank-deficient (fewer than three points, collinear or
\* coplanar points); it returns no transform for such input.
C15_DegenerateRejected ==
    (/\ res.op = "pca"
     /\ (Len(X) < 3 \/ Len(Y) < 3 \/ ~FullRank(X) \/ ~FullRank(Y)))
        => (res.err = "DEGENERATE_PCA" /\ res.t = Identity /\ res.out = Y)

\* C16: each reoriented axis is sign(m3) * e for the third central moment m3
\* along the axis e, and e itself when m3 is exactly 0; in every case it is a
\* unit vector equal to +e or -e.
C16_SignDisambiguation ==
    (res.op = "reorient" /\ Len(Y) >= 3 /\ FullRank(Y)) =>
        \A k \in 1..3 :
            /\ res.re[k] = IF res.m3[k] = Zero THEN res.e[k]
                           ELSE IF Less(res.m3[k], Zero) THEN VScale(res.e[k], FromInt(-1))
                           ELSE res.e[k]
            /\ res.re[k] \in {res.e[k], VScale(res.e[k], FromInt(-1))}
            /\ Dot(res.re[k], res.re[k]) = One

\* The reoriented components of a cloud, as AlignViaPCA computes them.
Reoriented(pc) == reorient_pcomps(est_COM(pc), est_PCA(pc, [k \in 1..3 |-> 1]), pc)

Orthonormal(B) ==
    \A j \in 1..3, k \in 1..3 : Dot(B[j], B[k]) = IF j = k THEN One ELSE Zero

\* C17: for orthonormal reoriented bases S (stationary) and M (moving) the
\* returned transform acts as p -> A*p + b with A = S*M^T and
\* b = mu_x - A*mu_y: it maps the moving centroid mu_y to the stationary
\* centroid mu_x and mu_y + e_k(moving) to mu_x + e_k(stationary) for each k.
C17_PCATransform ==
    (res.op = "pca" /\ Orthonormal(Reoriented(X)) /\ Orthonormal(Reoriented(Y))) =>
        LET mu_x == est_COM(X)
            mu_y == est_COM(Y)
            S == Reoriented(X)
            M == Reoriented(Y)
        IN  /\ res.err = "none"
            /\ ApplyToVec(res.t, mu_y).out = mu_x
            /\ \A k \in 1..3 :
                   ApplyToVec(res.t, VAdd(mu_y, M[k])).out = VAdd(mu_x, S[k])
            /\ \A r \in 1..3, c \in 1..3 :
                   res.t[c - 1][r - 1] =
                       Add(Add(Mul(S[1][r], M[1][c]), Mul(S[2][r], M[2][c])),
                           Mul(S[3][r], M[3][c]))

C17_Witness ==
    /\ res.op = "pca" /\ X = AsymCloud /\ Y = AsymCloudRot
    /\ Orthonormal(Reoriented(X)) /\ Orthonormal(Reoriented(Y))
    /\ res.t[0][0] # One
    /\ res.out = X

-----------------------------------------------------------------------------
(* SpecAlign: one AlignPoints call on a Drover of point clouds.             *)

\* Point clouds in the Drover.
MaxClouds == 2

\* One point with a non-finite coordinate.
NaNCloud == << IVec(1, 0, 0), Vec(NaN, Zero, One) >>

DroverClouds == {<<>>, NaNCloud, SymCloud, AsymCloud}

Methods ==
    { <<"c", "o", "m">>, <<"c", "o">>, <<"P", "C", "A">>, <<"p", "c">>,
      <<"c", "p", "d">>, <<"x">> }

\* The lists a selection can resolve to: clouds of the Drover, in its order.
Ascending(S) ==
    CHOOSE q \in [1..Cardinality(S) -> S] : \A i, j \in 1..Cardinality(S) : i < j => q[i] < q[j]

Selections(n) == {Ascending(S) : S \in SUBSET (1..n)}

InitAlign ==
    /\ clouds \in [1..MaxClouds -> DroverClouds]
    /\ call = NoCall
    /\ t = Identity /\ aop = NoAop /\ nWrites = 0
    /\ X = <<>> /\ Y = <<>> /\ res = NoRes
    /\ cli = NoCli /\ cpd = NoCpd

AlignPointsCall(moving_PCs, ref_PCs, MethodStr, sgnM, sgnS) ==
    /\ call.op = "none"
    /\ \E r \in {AlignPoints(clouds, moving_PCs, ref_PCs, MethodStr, sgnM, sgnS)} :
           /\ r.modelled
           /\ clouds' = r.clouds
           /\ call' = [op |-> "align", moving |-> moving_PCs, ref |-> ref_PCs,
                       method |-> MethodStr, before |-> clouds, err |-> r.err,
                       ran |-> r.ran]
    /\ UNCHANGED <<t, aop, nWrites, X, Y, res, cli, cpd>>

UsesPCA(MethodStr) ==
    ~regex_match(MethodStr, regex_com) /\ regex_match(MethodStr, regex_pca)

NextAlign ==
    \/ /\ call.op = "none"
       /\ \E mv \in Selections(Len(clouds)), rf \in Selections(Len(clouds)), me \in Methods :
              /\ ~UsesPCA(me)
              /\ AlignPointsCall(mv, rf, me, [k \in 1..3 |-> 1], [k \in 1..3 |-> 1])
    \/ /\ call.op = "none"
       /\ \E mv \in Selections(Len(clouds)), rf \in Selections(Len(clouds)), me \in Methods :
              /\ UsesPCA(me)
              /\ \E sgnM \in Signs, sgnS \in Signs : AlignPointsCall(mv, rf, me, sgnM, sgnS)

SpecAlign == InitAlign /\ [][NextAlign]_vars

-----------------------------------------------------------------------------
(* Claims about AlignPoints.                                                *)

LowerStr(str) == [k \in 1..Len(str) |-> Lower(str[k])]

AllRan(name) == call.ran # <<>> /\ \A k \in 1..Len(call.ran) : call.ran[k] = name

\* C6: when ReferencePointSelection resolves to zero or to more than one
\* cloud, AlignPoints fails with INVALID_SELECTION before any moving cloud is
\* examined or transformed, and every cloud is unchanged.
C6_InvalidSelection ==
    (call.op = "align" /\ Len(call.ref) # 1) =>
        /\ call.err = "INVALID_SELECTION"
        /\ call.ran = <<>>
        /\ clouds = call.before

C6_Witness ==
    /\ call.op = "align" /\ Len(call.ref) = 2
    /\ call.moving # <<>> /\ call.before[call.moving[1]] = AsymCloud
    /\ call.before[call.ref[1]] = SymCloud
    /\ call.method = <<"c", "o", "m">>
    /\ call.err = "INVALID_SELECTION"

\* C7 as stated: each of the method names com, pca and cpd (in any case,
\* and the prefixes co and pc) is dispatched to the aligner of that name; cpd
\* runs the CPD aligner rather than failing.
C7_ThreeMethods ==
    (call.op = "align" /\ Len(call.ref) = 1 /\ call.moving # <<>>) =>
        /\ LowerStr(call.method) \in {<<"c", "o", "m">>, <<"c", "o">>}
              => (AllRan("com") /\ call.err # "METHOD_UNKNOWN")
        /\ LowerStr(call.method) \in {<<"p", "c", "a">>, <<"p", "c">>}
              => (AllRan("pca") /\ call.err # "METHOD_UNKNOWN")
        /\ LowerStr(call.method) = <<"c", "p", "d">>
              => (AllRan("cpd") /\ call.err # "METHOD_UNKNOWN")

\* C7 as amended: com and pca (in any case, and the prefixes co and pc) are
\* dispatched to the aligner of that name for every moving cloud processed;
\* cpd matches no aligner: with a moving cloud to process the call fails with
\* METHOD_UNKNOWN, runs no aligner and changes no cloud.
C7_TwoMethods ==
    (call.op = "align" /\ Len(call.ref) = 1 /\ call.moving # <<>>) =>
        /\ LowerStr(call.method) \in {<<"c", "o", "m">>, <<"c", "o">>}
              => (AllRan("com") /\ call.err # "METHOD_UNKNOWN")
        /\ LowerStr(call.method) \in {<<"p", "c", "a">>, <<"p", "c">>}
              => (AllRan("pca") /\ call.err # "METHOD_UNKNOWN")
        /\ LowerStr(call.method) = <<"c", "p", "d">>
              => (call.ran = <<>> /\ call.err = "METHOD_UNKNOWN" /\ clouds = call.before)

C7_Witness ==
    /\ call.op = "align" /\ Len(call.ref) = 1 /\ Len(call.moving) = 2
    /\ call.method = <<"c", "p", "d">>
    /\ call.err = "METHOD_UNKNOWN"

\* C8: for a Method string that matches no aligner, AlignPoints fails with
\* METHOD_UNKNOWN whatever the moving selection resolves to (zero clouds
\* included), and no cloud is modified.
C8_UnknownMethodFails ==
    (/\ call.op = "align" /\ Len(call.ref) = 1
     /\ ~regex_match(call.method, regex_com)
     /\ ~regex_match(call.method, regex_pca))
        => (call.err = "METHOD_UNKNOWN" /\ clouds = call.before)

CloudFinite(pc) == \A k \in 1..Len(pc) : VFinite(pc[k])

\* C9: when AlignPoints fails while it processes its moving selection (here
\* against a non-empty reference cloud of finite points), no moving cloud and
\* no point is left transformed: the clouds equal their state before the call.
C9_AllOrNothing ==
    (/\ call.op = "align" /\ call.err # "none" /\ Len(call.ref) = 1
     /\ call.before[call.ref[1]] # <<>>
     /\ CloudFinite(call.before[call.ref[1]]))
        => clouds = call.before

\* C10: the reference cloud's points after the call equal its points before
\* the call, also when MovingPointSelection matches the reference cloud.
C10_ReferenceUnchanged ==
    (/\ call.op = "align" /\ Len(call.ref) = 1
     /\ \A k \in 1..Len(call.before) : CloudFinite(call.before[k]))
        => clouds[call.ref[1]] = call.before[call.ref[1]]

-----------------------------------------------------------------------------
(* SpecCLI: main() of the reference driver, Run_Def_Reg.cc.  The options are *)
(* handled one by one in command-line order by ArgumentHandler::Launch, then *)
(* the inputs are validated and the registration is run.  An option argument *)
(* is the sequence of its characters.  The handler registered for "tune"     *)
(* assigns to a name main() never declares and touches none of the locals    *)
(* modelled here.                                                            *)

\* Options handled on one command line.
MaxArgs == 3

Digit(ch) ==
    CASE ch = "0" -> 0 [] ch = "1" -> 1 [] ch = "2" -> 2 [] ch = "3" -> 3 [] OTHER -> -1

\* The value of the digits of str from position k on, given the value acc of
\* the digits before; conversion stops at the first character that is no digit.
RECURSIVE StolDigits(_, _, _)
StolDigits(str, k, acc) ==
    IF k > Len(str) \/ Digit(str[k]) < 0 THEN acc
    ELSE StolDigits(str, k + 1, 10 * acc + Digit(str[k]))

\* std::stol: an optional sign, then decimal digits; std::invalid_argument
\* when no digit follows.
Stol(str) ==
    LET neg   == Len(str) >= 1 /\ str[1] = "-"
        first == IF neg THEN 2 ELSE 1
    IN  IF first > Len(str) \/ Digit(str[first]) < 0
        THEN [ok |-> FALSE, val |-> 0]
        ELSE [ok |-> TRUE,
              val |-> IF neg THEN -StolDigits(str, first, 0) ELSE StolDigits(str, first, 0)]

\* Arguments given with -d.
DArgs == { <<"2">>, <<"-", "1">>, <<"0", "3">>, <<"x">>, <<"3", "x">> }

TypeArgs == {"rigid", "other"}

\* CPDParams params: default-constructed.  The defaults are set where the
\* structure is declared; the model lets max_iterations default to any value
\* of this set.
DefaultParams == [max_iterations : {1, 2}]

InitCLI ==
    /\ \E p \in DefaultParams :
           cli = [pc |-> "args", nArgs |-> 0, type |-> "rigid", iters |-> 1,
                  params |-> p, moving |-> FALSE, stationary |-> FALSE,
                  dGiven |-> FALSE, dArg |-> 0, called |-> FALSE, passed |-> p,
                  code |-> "none"]
    /\ cpd = NoCpd
    /\ t = Identity /\ aop = NoAop /\ nWrites = 0
    /\ X = <<>> /\ Y = <<>> /\ res = NoRes
    /\ clouds = <<>> /\ call = NoCall

\* -d <optarg>: iters = std::stol(optarg).  An exception leaves the handler
\* and main() uncaught.
ArgIterations(optarg) ==
    /\ cli.pc = "args" /\ cli.nArgs < MaxArgs
    /\ \E r \in {Stol(optarg)} :
           cli' = IF r.ok
                  THEN [cli EXCEPT !.nArgs = @ + 1, !.iters = r.val, !.dGiven = TRUE,
                             !.dArg = r.val]
                  ELSE [cli EXCEPT !.pc = "exit", !.code = "terminate"]
    /\ UNCHANGED <<t, aop, nWrites, X, Y, res, clouds, call, cpd>>

\* the "type" option: type = optarg.
ArgType(optarg) ==
    /\ cli.pc = "args" /\ cli.nArgs < MaxArgs
    /\ cli' = [cli EXCEPT !.nArgs = @ + 1, !.type = optarg]
    /\ UNCHANGED <<t, aop, nWrites, X, Y, res, clouds, call, cpd>>

\* -m <file>: the image is appended to moving.images, or the program exits
\* with status 1 when the file cannot be parsed.
ArgMoving(loaded) ==
    /\ cli.pc = "args" /\ cli.nArgs < MaxArgs
    /\ cli' = IF loaded THEN [cli EXCEPT !.nArgs = @ + 1, !.moving = TRUE]
              ELSE [cli EXCEPT !.pc = "exit", !.code = "1"]
    /\ UNCHANGED <<t, aop, nWrites, X, Y, res, clouds, call, cpd>>

\* -s <file>: likewise for stationary.images.
ArgStationary(loaded) ==
    /\ cli.pc = "args" /\ cli.nArgs < MaxArgs
    /\ cli' = IF loaded THEN [cli EXCEPT !.nArgs = @ + 1, !.stationary = TRUE]
              ELSE [cli EXCEPT !.pc = "exit", !.code = "1"]
    /\ UNCHANGED <<t, aop, nWrites, X, Y, res, clouds, call, cpd>>

\* After Launch: input validation (FUNCERR ends the program), then
\* AlignViaRigidCPD(params, moving, stationary, ...) for type "rigid".  passed
\* is the CPDParams the aligner receives; dArg is the value of the last -d.
Register ==
    /\ cli.pc = "args"
    /\ cli' = IF ~cli.moving \/ ~cli.stationary
              THEN [cli EXCEPT !.pc = "exit", !.code = "FUNCERR"]
              ELSE IF cli.type = "rigid"
              THEN [cli EXCEPT !.pc = "exit", !.code = "0", !.called = TRUE,
                         !.passed = cli.params]
              ELSE [cli EXCEPT !.pc = "exit", !.code = "FUNCERR"]
    /\ UNCHANGED <<t, aop, nWrites, X, Y, res, clouds, call, cpd>>

NextCLI ==
    \/ \E optarg \in DArgs : ArgIterations(optarg)
    \/ \E optarg \in TypeArgs : ArgType(optarg)
    \/ \E loaded \in BOOLEAN : ArgMoving(loaded)
    \/ \E loaded \in BOOLEAN : ArgStationary(loaded)
    \/ Register

SpecCLI == InitCLI /\ [][NextCLI]_vars

\* C14: the value given with -d becomes the max_iterations of the CPDParams
\* passed to the CPD aligner: after '-d k' the registration runs with
\* max_iterations = k.
C14_IterationsPassed ==
    (cli.pc = "exit" /\ cli.called /\ cli.dGiven)
        => cli.passed.max_iterations = cli.dArg

-----------------------------------------------------------------------------
(* SpecCPD: one rigid CPD alignment.  CPD_Shared.cc holds the helpers        *)
(* (Init_Sigma_Squared, E_Step, GetTranslationVector); the aligner that      *)
(* drives them, AlignViaRigidCPD, is called by the driver but defined        *)
(* elsewhere, so its entry checks, its M-step and its iteration control      *)
(* follow the design document: section 4.5 for the steps and the state       *)
(* machine INIT -> ITERATE -> CONVERGED | EXHAUSTED, section 5 for the        *)
(* observer's stop signal.  The state machine has two terminal states; a     *)
(* stop signal ends the run without convergence and is modelled as entering  *)
(* EXHAUSTED early, with the flag stopped set.                               *)

\* Ceiling of the max_iterations values tried.
MaxIters == 2

Two == FromInt(2)

\* GetTranslationVector: xMeanVector - scale * rotationMatrix * yMeanVector.
GetTranslationVector(rotationMatrix, xMeanVector, yMeanVector, scale) ==
    VSub(xMeanVector, VScale(MatVec(rotationMatrix, yMeanVector), scale))

\* Row m of Y * R (no transposition): component c is sum_k y[k] * R[k][c].
AlignedPointSetNoTranspose(yPoints, rotationMatrix, translation, scale) ==
    [m \in 1..Len(yPoints) |->
        VAdd(VScale([c \in 1..3 |->
                        Dot(<<rotationMatrix[1][c], rotationMatrix[2][c],
                              rotationMatrix[3][c]>>, yPoints[m])], scale),
             translation)]

\* AlignedPointSet: scale * yPoints * rotationMatrix^T + oneVec * translation^T;
\* row m of yPoints * R^T is R * y_m.
AlignedPointSet(yPoints, rotationMatrix, translation, scale) ==
    [m \in 1..Len(yPoints) |->
        VAdd(VScale(MatVec(rotationMatrix, yPoints[m]), scale), translation)]

\* The transformed point of the E-step: rotationMatrix * y_m + t.
EStepPoint(rotationMatrix, y, tr) == VAdd(MatVec(rotationMatrix, y), tr)

\* E_Step, first double loop: expArg = -1 / (2 * sigmaSquared) * squaredNorm
\* of x_n - (R * y_m + t), for each m, n.  (scale is not used by E_Step.)
ExpArg(xPoints, yPoints, rotationMatrix, tr, sigmaSquared) ==
    Let(Div(FromInt(-1), Mul(Two, sigmaSquared)), LAMBDA f :
        [m \in 1..Len(yPoints) |-> [n \in 1..Len(xPoints) |->
            Mul(f, SquaredNorm(VSub(xPoints[n],
                                    EStepPoint(rotationMatrix, yPoints[m], tr))))]])

\* E_Step, second double loop: the term added to each column sum,
\* pow(2 * M_PI * sigmaSquared, (double)(dimensionality / 2)) * (w / (1 - w))
\* * (double)(mRowsY / nRowsX).  Both quotients are integer divisions, so the
\* exponent is 1 for three columns and the term is pi times the value below.
NoiseTermOverPi(xPoints, yPoints, sigmaSquared, w) ==
    Mul(Mul(Mul(Two, sigmaSquared), Div(w, Sub(One, w))),
        FromInt(Len(yPoints) \div Len(xPoints)))

\* exp() of a double is 0 for every argument below this (the smallest
\* positive double is about exp(-745.13)).
ExpUnderflow == 746

\* exp(a) on doubles, where the model has its exact value: NaN for NaN, 1 for
\* 0, 0 below the underflow threshold.  Elsewhere the value is irrational and
\* the model only records that it is not known.
Exp(a) ==
    IF IsNaN(a) THEN [known |-> TRUE, val |-> NaN]
    ELSE IF a = Zero THEN [known |-> TRUE, val |-> One]
    ELSE IF Less(a, FromInt(-ExpUnderflow)) THEN [known |-> TRUE, val |-> Zero]
    ELSE [known |-> FALSE, val |-> Zero]

\* expMat.col(n).sum()
RECURSIVE ColSum(_, _, _)
ColSum(expMat, n, m) ==
    IF m > Len(expMat) THEN Zero ELSE Add(expMat[m][n].val, ColSum(expMat, n, m + 1))

\* E_Step: expMat(m, n) = exp(expArg), then postProb(m, n) = numerator /
\* denominator with numerator = expMat(m, n) and denominator = column sum +
\* noise term.  The noise term is a multiple of pi, so a posterior entry is
\* kept as its numerator num and its denominator denRat + denPi * pi; known
\* tells whether every exp of its column has an exact value in the model.
E_Step(xPoints, yPoints, rotationMatrix, tr, sigmaSquared, w, scale) ==
    Let2(ExpArg(xPoints, yPoints, rotationMatrix, tr, sigmaSquared),
         NoiseTermOverPi(xPoints, yPoints, sigmaSquared, w), LAMBDA ea, noise :
        Let([m \in 1..Len(yPoints) |-> [n \in 1..Len(xPoints) |-> Exp(ea[m][n])]],
            LAMBDA expMat :
            [expArg |-> ea,
             noiseOverPi |-> noise,
             postProb |->
                 [m \in 1..Len(yPoints) |-> [n \in 1..Len(xPoints) |->
                     [known |-> \A k \in 1..Len(yPoints) : expMat[k][n].known,
                      num |-> expMat[m][n].val,
                      denRat |-> ColSum(expMat, n, 1),
                      denPi |-> noise]]]]))

\* The floor sigma squared is clamped to after an M-step.
SigmaFloor == Rat(1, 1000)

ClampNone(raw) == raw

Clamp(raw) == IF Less(raw, SigmaFloor) THEN SigmaFloor ELSE raw

LessEq(a, b) == a = b \/ Less(a, b)

ConvergedStrict(prev, new, tolerance) ==
    Less(AbsR(Sub(new, prev)), tolerance) \/ LessEq(new, SigmaFloor)

\* |sigma2_new - sigma2_prev| <= tolerance, or sigma2_new <= floor.
Converged(prev, new, tolerance) ==
    LessEq(AbsR(Sub(new, prev)), tolerance) \/ LessEq(new, SigmaFloor)

ExhaustedLate(iter, max_iterations) == iter > max_iterations

\* The iteration count has reached max_iterations.
Exhausted(iter, max_iterations) == iter >= max_iterations

WValidClosed(w) == LessEq(Zero, w) /\ LessEq(w, One)

\* w in [0, 1).
WValid(w) == LessEq(Zero, w) /\ Less(w, One)

ObserverIgnored(ret) == FALSE

\* The observer's return value asks the aligner to stop.
ObserverStops(ret) == ret = "stop"

RotZ90 == << <<Zero, FromInt(-1), Zero>>, <<One, Zero, Zero>>, <<Zero, Zero, One>> >>

RotIdentity == [r \in 1..3 |-> [c \in 1..3 |-> IF r = c THEN One ELSE Zero]]

\* RigidCPDTransform: rotation, translation and scale.
ResultStale(R, tr) == [R |-> RotIdentity, t |-> IVec(0, 0, 0), s |-> One]

Result(R, tr) == [R |-> R, t |-> tr, s |-> One]

\* Inputs of the alignment.
CPDClouds == { <<>>, << IVec(0, 0, 0) >>, << IVec(0, 0, 0), IVec(1, 0, 0) >>, NaNCloud }

WValues == { Zero, Rat(1, 2), One, Rat(3, 2), Rat(-1, 2) }

CPDParams ==
    [max_iterations : 1..MaxIters, tolerance : {Zero, Rat(1, 2)}, w : WValues,
     sigma_given : BOOLEAN, sigma_squared_init : {Rat(1, 4)}, observer : BOOLEAN]

\* What an M-step can produce from a posterior: a rotation, the weighted
\* centroids ux and uy, and sigma squared before clamping.
MOutcomes ==
    [R : {RotIdentity, RotZ90}, ux : {IVec(1, 0, 0)}, uy : {IVec(0, 1, 0)},
     raw : {FromInt(-1), Rat(1, 4), One}]

ObserverReturns == {"continue", "stop"}

InitCPD ==
    /\ \E xs \in CPDClouds, ys \in CPDClouds, p \in CPDParams :
           cpd = [pc |-> "START", step |-> "none", X |-> xs, Y |-> ys, params |-> p,
                  sigma2 |-> Zero, sigma2_prev |-> Zero, R |-> RotIdentity,
                  tr |-> IVec(0, 0, 0), iter |-> 0,
                  post |-> [expArg |-> <<>>, noiseOverPi |-> Zero, postProb |-> <<>>],
                  eCount |-> 0, mCount |-> 0, eSigma |-> One, obsCalls |-> <<>>,
                  obsRet |-> "none", stopped |-> FALSE,
                  lastM |-> [R |-> RotIdentity, t |-> IVec(0, 0, 0)],
                  err |-> "none", result |-> Result(RotIdentity, IVec(0, 0, 0))]
    /\ cli = NoCli
    /\ t = Identity /\ aop = NoAop /\ nWrites = 0
    /\ X = <<>> /\ Y = <<>> /\ res = NoRes
    /\ clouds = <<>> /\ call = NoCall

\* The failures the aligner's entry checks can report for its input.
EntryErrors(c) ==
    (IF c.X = <<>> \/ c.Y = <<>> THEN {"EMPTY_POINTSET"} ELSE {})
    \cup (IF ~WValid(c.params.w) THEN {"INVALID_W"} ELSE {})
    \cup (IF ~CloudFinite(c.X) \/ ~CloudFinite(c.Y) THEN {"NON_FINITE"} ELSE {})

\* Entry: the input is checked before anything is computed.
Enter ==
    /\ cpd.pc = "START"
    /\ \/ /\ EntryErrors(cpd) = {}
          /\ cpd' = [cpd EXCEPT !.pc = "INIT"]
       \/ \E e \in EntryErrors(cpd) : cpd' = [cpd EXCEPT !.pc = "FAILED", !.err = e]
    /\ UNCHANGED <<t, aop, nWrites, X, Y, res, clouds, call, cli>>

\* INIT: sigma squared from the data unless overridden; R = I; t = 0.
InitStep ==
    /\ cpd.pc = "INIT"
    /\ \E s0 \in {IF cpd.params.sigma_given THEN cpd.params.sigma_squared_init
                  ELSE Init_Sigma_Squared(cpd.X, cpd.Y)} :
           cpd' = [cpd EXCEPT !.pc = "ITERATE", !.step = "E", !.sigma2 = s0,
                              !.sigma2_prev = s0, !.R = RotIdentity,
                              !.tr = IVec(0, 0, 0), !.iter = 0]
    /\ UNCHANGED <<t, aop, nWrites, X, Y, res, clouds, call, cli>>

\* ITERATE, first half: the E-step with the current R, t and sigma squared.
EStep ==
    /\ cpd.pc = "ITERATE" /\ cpd.step = "E"
    /\ \E P \in {E_Step(cpd.X, cpd.Y, cpd.R, cpd.tr, cpd.sigma2, cpd.params.w, One)} :
           cpd' = [cpd EXCEPT !.step = "M", !.post = P, !.eCount = @ + 1,
                              !.eSigma = cpd.sigma2]
    /\ UNCHANGED <<t, aop, nWrites, X, Y, res, clouds, call, cli>>

\* The transition taken once an iteration is complete.
Conclude(c, stop) ==
    IF Converged(c.sigma2_prev, c.sigma2, c.params.tolerance)
    THEN [c EXCEPT !.pc = "CONVERGED", !.step = "none", !.result = Result(c.R, c.tr)]
    ELSE IF Exhausted(c.iter, c.params.max_iterations)
    THEN [c EXCEPT !.pc = "EXHAUSTED", !.step = "none", !.result = Result(c.R, c.tr)]
    ELSE IF stop
    THEN [c EXCEPT !.pc = "EXHAUSTED", !.step = "none", !.stopped = TRUE,
                   !.result = Result(c.R, c.tr)]
    ELSE [c EXCEPT !.step = "E"]

\* ITERATE, second half: the M-step replaces R, t and sigma squared (clamped
\* to the floor) and counts the iteration; without an observer the
\* transition follows at once.
MStep(o) ==
    /\ cpd.pc = "ITERATE" /\ cpd.step = "M"
    /\ \E tv \in {GetTranslationVector(o.R, o.ux, o.uy, One)} :
       \E c \in {[cpd EXCEPT !.R = o.R, !.tr = tv, !.sigma2_prev = cpd.sigma2,
                             !.sigma2 = Clamp(o.raw), !.iter = @ + 1,
                             !.mCount = @ + 1, !.lastM = [R |-> o.R, t |-> tv]]} :
           cpd' = IF c.params.observer THEN [c EXCEPT !.step = "O"]
                  ELSE Conclude(c, FALSE)
    /\ UNCHANGED <<t, aop, nWrites, X, Y, res, clouds, call, cli>>

\* The observer is called with (iter, R, t, sigma squared) and answers.
Observe(ret) ==
    /\ cpd.pc = "ITERATE" /\ cpd.step = "O"
    /\ cpd' = Conclude([cpd EXCEPT !.obsCalls = Append(@, cpd.iter), !.obsRet = ret],
                       ObserverStops(ret))
    /\ UNCHANGED <<t, aop, nWrites, X, Y, res, clouds, call, cli>>

NextCPD ==
    \/ Enter
    \/ InitStep
    \/ EStep
    \/ \E o \in MOutcomes : MStep(o)
    \/ \E ret \in ObserverReturns : Observe(ret)

\* The alignment is one synchronous call: a step that can be taken is taken.
SpecCPD == InitCPD /\ [][NextCPD]_vars /\ WF_vars(NextCPD)

-----------------------------------------------------------------------------
(* Claims about the CPD aligner.                                            *)

Terminal == {"CONVERGED", "EXHAUSTED"}

SigmaSettled ==
    \/ AbsR(Sub(cpd.sigma2, cpd.sigma2_prev)) = cpd.params.tolerance
    \/ Less(AbsR(Sub(cpd.sigma2, cpd.sigma2_prev)), cpd.params.tolerance)
    \/ cpd.sigma2 = Rat(1, 1000)
    \/ Less(cpd.sigma2, Rat(1, 1000))

FromLastMStep ==
    /\ cpd.err = "none"
    /\ cpd.result.R = cpd.lastM.R /\ cpd.result.t = cpd.lastM.t
    /\ cpd.result.s = One

C13_InvalidWRejected ==
    LET w == cpd.params.w
        outside == Less(w, Zero) \/ w = One \/ Less(One, w)
    IN  /\ outside => (cpd.pc \in {"START", "FAILED"} /\ cpd.eCount = 0)
        /\ (/\ outside /\ cpd.pc = "FAILED"
            /\ cpd.X # <<>> /\ cpd.Y # <<>> /\ CloudFinite(cpd.X) /\ CloudFinite(cpd.Y))
               => cpd.err = "INVALID_W"
        /\ cpd.eCount > 0 => Sub(One, w) # Zero

C13_Witness ==
    /\ cpd.pc = "FAILED" /\ cpd.err = "INVALID_W"
    /\ cpd.params.w = One
    /\ Len(cpd.X) = 2 /\ Len(cpd.Y) = 2 /\ CloudFinite(cpd.X) /\ CloudFinite(cpd.Y)

\* C18: the loop is in CONVERGED exactly when, after an M-step,
\* |sigma2_new - sigma2_prev| <= tolerance or sigma2_new <= floor; with
\* tolerance = 0 two equal successive values count as convergence.
C18_ConvergedExactly ==
    /\ cpd.pc = "CONVERGED" => (cpd.mCount > 0 /\ SigmaSettled)
    /\ (/\ cpd.mCount > 0
        /\ (cpd.pc = "EXHAUSTED" \/ (cpd.pc = "ITERATE" /\ cpd.step = "E")))
           => ~SigmaSettled

C18_Witness ==
    /\ cpd.pc = "CONVERGED"
    /\ cpd.params.tolerance = Zero
    /\ cpd.sigma2 = cpd.sigma2_prev
    /\ Less(Rat(1, 1000), cpd.sigma2)

\* C19: the observer is invoked once after each M-step, with increasing
\* iteration index, and its call leaves R, t and sigma squared as they are;
\* after a stop signal no further E-step or M-step is made and the transform
\* of the last completed M-step is returned as success.
C19_Observer ==
    /\ [](/\ cpd.obsCalls =
               [k \in 1..(IF ~cpd.params.observer THEN 0
                          ELSE IF cpd.step = "O" THEN cpd.mCount - 1
                          ELSE cpd.mCount) |-> k]
          /\ cpd.obsRet = "stop" =>
                 /\ cpd.pc \in Terminal
                 /\ FromLastMStep
                 /\ cpd.eCount = Len(cpd.obsCalls) /\ cpd.mCount = Len(cpd.obsCalls))
    /\ [][cpd.step = "O" =>
             /\ cpd'.R = cpd.R /\ cpd'.tr = cpd.tr /\ cpd'.sigma2 = cpd.sigma2
             /\ cpd'.sigma2_prev = cpd.sigma2_prev /\ cpd'.iter = cpd.iter
             /\ cpd'.eCount = cpd.eCount /\ cpd'.mCount = cpd.mCount]_vars

C19_Witness ==
    /\ cpd.obsRet = "stop" /\ cpd.stopped
    /\ cpd.obsCalls = <<1>>
    /\ cpd.params.max_iterations = 2
    /\ cpd.result.R = RotZ90

\* C20: sigma squared is strictly positive whenever an E-step is entered,
\* for the data-derived initial value (also when all points of X and Y
\* coincide) and after every M-step update.
C20_SigmaPositive ==
    /\ (cpd.pc = "ITERATE" /\ cpd.step = "E") => Less(Zero, cpd.sigma2)
    /\ cpd.eCount > 0 => Less(Zero, cpd.eSigma)

-----------------------------------------------------------------------------
(* SpecShared: the helpers of CPD_Shared.cc called directly, on two point    *)
(* sets of at least one point each.  The points lie 100 apart, so that each  *)
(* exponent of the E-step is 0 or below the underflow threshold of exp.      *)

MaxRows == 2

SharedPoints == { IVec(0, 0, 0), IVec(100, 0, 0) }

SharedClouds == SeqsUpTo(SharedPoints, MaxRows) \ { <<>> }

SharedRotations == { RotIdentity, RotZ90 }

SharedSigmas == { Rat(1, 4), One }

SharedW == { Zero, Rat(1, 2), One }

SharedScales == { One, Two }

InitShared ==
    /\ X \in SharedClouds
    /\ Y \in SharedClouds
    /\ res = NoRes
    /\ t = Identity /\ aop = NoAop /\ nWrites = 0
    /\ clouds = <<>> /\ call = NoCall
    /\ cli = NoCli /\ cpd = NoCpd

\* One call of E_Step(X, Y, R, t, sigmaSquared, w, 1).
RunEStep ==
    /\ res.op = "none"
    /\ \E R \in SharedRotations, tr \in SharedPoints, s2 \in SharedSigmas, w \in SharedW :
           res' = [op |-> "estep", R |-> R, tr |-> tr, sigma2 |-> s2, w |-> w,
                   post |-> E_Step(X, Y, R, tr, s2, w, One)]
    /\ UNCHANGED <<t, aop, nWrites, X, Y, clouds, call, cli, cpd>>

\* t = GetTranslationVector(R, ux, uy, s), then AlignedPointSet(Y, R, t, s) and
\* the same on the one-row matrix holding uy; estep holds the points the
\* E-step would use with that R and t.
RunAligned ==
    /\ res.op = "none"
    /\ \E R \in SharedRotations, ux \in SharedPoints, uy \in SharedPoints,
          s \in SharedScales :
         \E tr \in {GetTranslationVector(R, ux, uy, s)} :
           res' = [op |-> "aligned", R |-> R, ux |-> ux, uy |-> uy, s |-> s, tr |-> tr,
                   aligned |-> AlignedPointSet(Y, R, tr, s),
                   muImage |-> AlignedPointSet(<<uy>>, R, tr, s)[1],
                   estep |-> [m \in 1..Len(Y) |-> EStepPoint(R, Y[m], tr)]]
    /\ UNCHANGED <<t, aop, nWrites, X, Y, clouds, call, cli, cpd>>

NextShared == RunEStep \/ RunAligned

SpecShared == InitShared /\ [][NextShared]_vars

\* A valid E-step input: sigma2 > 0 and 0 <= w < 1 (both sets are non-empty).
ValidEStep ==
    /\ res.op = "estep"
    /\ Less(Zero, res.sigma2)
    /\ LessEq(Zero, res.w) /\ Less(res.w, One)

\* num / (denRat + denPi * pi) is a number in [0, 1]: the denominator is not
\* zero, and 0 <= num <= denRat with denPi >= 0.
InUnitInterval(p) ==
    /\ ~IsNaN(p.num) /\ ~IsNaN(p.denRat) /\ ~IsNaN(p.denPi)
    /\ Less(Zero, p.denRat) \/ Less(Zero, p.denPi)
    /\ LessEq(Zero, p.num) /\ LessEq(p.num, p.denRat) /\ LessEq(Zero, p.denPi)

RECURSIVE NumSum(_, _, _)
NumSum(P, n, m) == IF m > Len(P) THEN Zero ELSE Add(P[m][n].num, NumSum(P, n, m + 1))

\* C21: for every valid E-step input the posterior matrix has M rows and N
\* columns, each entry is a number in [0, 1], and each column sums to at most 1.
C21_PosteriorInUnit ==
    ValidEStep =>
        Let(res.post.postProb, LAMBDA P :
            /\ Len(P) = Len(Y)
            /\ \A m \in 1..Len(P) :
                 /\ Len(P[m]) = Len(X)
                 /\ \A n \in 1..Len(X) :
                      /\ P[m][n].known
                      /\ InUnitInterval(P[m][n])
                      /\ LessEq(NumSum(P, n, 1), P[m][n].denRat))

\* C22: the noise constant of the E-step denominator is positive whenever
\* w > 0, for all sizes M and N, also when M < N.
C22_NoisePositive ==
    (ValidEStep /\ Less(Zero, res.w)) => Less(Zero, res.post.noiseOverPi)

\* C23: with t = GetTranslationVector(R, mu_x, mu_y, s), AlignedPointSet sends
\* mu_y to mu_x, each of its rows m is s * R * y_m + t, and for s = 1 the rows
\* are the points R * y_m + t of the E-step.
C23_TranslationConsistent ==
    res.op = "aligned" =>
        /\ res.muImage = res.ux
        /\ Len(res.aligned) = Len(Y)
        /\ \A m \in 1..Len(Y) :
             res.aligned[m] =
                 [c \in 1..3 |->
                     Add(Mul(res.s, Add(Add(Mul(res.R[c][1], Y[m][1]),
                                            Mul(res.R[c][2], Y[m][2])),
                                        Mul(res.R[c][3], Y[m][3]))),
                         res.tr[c])]
        /\ res.tr = [c \in 1..3 |->
                        Sub(res.ux[c],
                            Mul(res.s, Add(Add(Mul(res.R[c][1], res.uy[1]),
                                               Mul(res.R[c][2], res.uy[2])),
                                           Mul(res.R[c][3], res.uy[3]))))]
        /\ res.s = One => res.aligned = res.estep

\* A scaled, rotated alignment of a set with a point off the origin.
C23_Witness ==
    /\ res.op = "aligned"
    /\ res.s = Two /\ res.R = RotZ90
    /\ res.uy = IVec(100, 0, 0) /\ res.ux = IVec(0, 0, 0)
    /\ Y = << IVec(100, 0, 0), IVec(0, 0, 0) >>
    /\ res.aligned = << IVec(0, 0, 0), IVec(0, -200, 0) >>

====
